---- MODULE Spec2Model ----
(***************************************************************************)
(* Model of ci/jobgenerator.py: the metadata resolver (parse_metadata),    *)
(* the job content builder (load_config), the create-or-update handler     *)
(* (create_jenkins_job) and the reconciliation loops (create_jenkins_jobs) *)
(* run against a Jenkins job store.                                        *)
(*                                                                         *)
(* Python dicts are functions whose DOMAIN is the set of keys present.     *)
(* Python strings are TLA+ strings, concatenated with \o, so that job and  *)
(* view names are the strings the code builds.                             *)
(***************************************************************************)
EXTENDS Integers, Sequences, FiniteSets, TLC

VARIABLES metadata, server, pc, plan, i, log, start, past, failed, lp, timer

vars == <<metadata, server, pc, plan, i, log, start, past, failed, lp, timer>>

(***************************************************************************)
(* Bounds of the model.                                                    *)
(***************************************************************************)
\* repositories per config group
MaxRepos == 2
\* successive runs of create_jenkins_jobs against the same job store
MaxRuns == 2

(***************************************************************************)
(* Generic helpers for dicts, sequences and strings.                       *)
(***************************************************************************)
Range(s) == {s[k] : k \in DOMAIN s}

\* d[k] = v on a dict, adding the key when it is absent
Put(d, k, v) == [x \in (DOMAIN d) \cup {k} |-> IF x = k THEN v ELSE d[x]]

\* "sub in s" on Python strings
RECURSIVE Contains(_, _)
Contains(s, sub) ==
    IF Len(s) < Len(sub) THEN FALSE
    ELSE IF SubSeq(s, 1, Len(sub)) = sub THEN TRUE
    ELSE Contains(SubSeq(s, 2, Len(s)), sub)

\* s.replace(old, new) on Python strings (old is not empty)
RECURSIVE Replace(_, _, _)
Replace(s, old, new) ==
    IF Len(s) < Len(old) THEN s
    ELSE IF SubSeq(s, 1, Len(old)) = old
         THEN new \o Replace(SubSeq(s, Len(old) + 1, Len(s)), old, new)
         ELSE SubSeq(s, 1, 1) \o Replace(SubSeq(s, 2, Len(s)), old, new)

(***************************************************************************)
(* parse_metadata: default inheritance, key validation, substitution.      *)
(***************************************************************************)
mdata_req_keys == <<"name", "packaging_url", "packaging_branch",
                    "upload_target", "releases", "default_branch",
                    "type", "upstream_url", "upstream_branch">>

mdata_opt_keys == <<"upstream_url", "upstream_branch">>

\* the substitution table {"NAME": "name"}
mdata_sub_keys == [NAME |-> "name"]

\* keys whose value is a list of strings; every other value is a string
ListKeys == {"releases", "cascade"}

\* lines 114-116: required keys missing on the package come from the default
FillDefaults(package, default) ==
    LET fill == {k \in Range(mdata_req_keys) :
                     k \notin DOMAIN package /\ k \in DOMAIN default}
    IN  [k \in (DOMAIN package) \cup fill |->
             IF k \in DOMAIN package THEN package[k] ELSE default[k]]

\* the test of lines 119-120 with "in" for the second "not in"
InvalidKey_mistyped(mkey) ==
    mkey \notin Range(mdata_req_keys) /\ mkey \in Range(mdata_opt_keys)

\* lines 119-121: a key in neither list
InvalidKey(mkey) ==
    mkey \notin Range(mdata_req_keys) /\ mkey \notin Range(mdata_opt_keys)

\* line 124: "skey in package[mkey]" is a substring test on a string and an
\* element test on a list
HasToken(value, mkey, skey) ==
    IF mkey \in ListKeys THEN skey \in Range(value) ELSE Contains(value, skey)

\* lines 123-128 for one key: the token is replaced by the package's own
\* value of the key the table names
SubstituteKey(package, mkey) ==
    LET hit == {skey \in DOMAIN mdata_sub_keys :
                    HasToken(package[mkey], mkey, skey)}
    IN  IF hit = {} THEN package[mkey]
        ELSE Replace(package[mkey], "NAME", package[mdata_sub_keys["NAME"]])

\* lines 123-128 raise when the token occurs and the package has no "name"
\* (KeyError) or the token is an element of a list (no list.replace)
SubstituteRaises(package) ==
    \E mkey \in DOMAIN package :
        /\ HasToken(package[mkey], mkey, "NAME")
        /\ \/ mkey \in ListKeys
           \/ mdata_sub_keys["NAME"] \notin DOMAIN package

\* lines 112-128 for one package: [err, package]
ParsePackage(package, default) ==
    LET filled == FillDefaults(package, default)
    IN  IF \E mkey \in DOMAIN filled : InvalidKey(mkey)
        THEN [err |-> TRUE, package |-> filled]
        ELSE IF SubstituteRaises(filled)
        THEN [err |-> TRUE, package |-> filled]
        ELSE [err |-> FALSE,
              package |-> [mkey \in DOMAIN filled |->
                               SubstituteKey(filled, mkey)]]

\* lines 105-111 for one config group: merger groups are skipped
ParseConfig(config) ==
    IF config.default["type"] = "merger"
    THEN [err |-> FALSE, config |-> config]
    ELSE LET res == [p \in DOMAIN config.repositories |->
                         ParsePackage(config.repositories[p], config.default)]
         IN  [err |-> \E p \in DOMAIN res : res[p].err,
              config |-> [config EXCEPT !.repositories =
                              [p \in DOMAIN res |-> res[p].package]]]

\* parse_metadata on the cloned document: [err, active_configs]
parse_metadata(mdata_conf) ==
    LET res == [c \in DOMAIN mdata_conf |-> ParseConfig(mdata_conf[c])]
    IN  [err |-> \E c \in DOMAIN res : res[c].err,
         active_configs |-> [c \in DOMAIN res |-> res[c].config]]

(***************************************************************************)
(* load_config: the rendered job content.  The template is a pure function *)
(* of its name and bindings, so a content is the record of both.  The      *)
(* merge script is the sequence of its lines.                              *)
(***************************************************************************)
\* an optional argument: None, or a value
None == <<>>
Some(data) == <<data>>

\* the three lines for branch c with line 201 merging cascading[i]
CascadeStep_merges_itself(c, previous) ==
    << "git branch -a | egrep \"remotes/origin/" \o c
           \o "\" &amp;&amp; git checkout " \o c
           \o " || git checkout -b " \o c,
       "git merge --ff-only " \o c,
       "git push --set-upstream origin " \o c >>

\* lines 196-203: the three lines for branch c, merging the previous branch
CascadeStep(c, previous) ==
    << "git branch -a | egrep \"remotes/origin/" \o c
           \o "\" &amp;&amp; git checkout " \o c
           \o " || git checkout -b " \o c,
       "git merge --ff-only " \o previous,
       "git push --set-upstream origin " \o c >>

\* lines 187-203: the cascade script of a branch list
RECURSIVE CascadeFrom(_, _)
CascadeFrom(cascading, k) ==
    IF k > Len(cascading) THEN <<>>
    ELSE (IF k = 1 THEN <<"git checkout " \o cascading[1]>>
          ELSE CascadeStep(cascading[k], cascading[k - 1]))
         \o CascadeFrom(cascading, k + 1)

Cascade(cascading) == CascadeFrom(cascading, 1)

\* the keys load_config reads from data for a job type (a missing one is a
\* KeyError): lines 171-173, 178-183, 189 and 207
KeysRead(job_type) ==
    {"packaging_url", "packaging_branch", "upload_target"}
    \cup (IF job_type \in {"package-stable", "package-unstable"}
          THEN {"upstream_url", "name", "release"}
          ELSE IF job_type = "merger" THEN {"cascade", "name"}
          ELSE {})

\* load_config that renders another template, without the merge commands,
\* for a merger job whose packaging URL is one of the "git/" remotes
load_config_placeholder(job_type, data) ==
    IF data = None
    THEN [err |-> job_type # "release-mgmt", config |-> [template |-> job_type]]
    ELSE LET d == data[1]
         IN  IF ~(KeysRead(job_type) \subseteq DOMAIN d)
             THEN [err |-> TRUE, config |-> [template |-> job_type]]
             ELSE IF job_type = "merger"
             THEN IF Len(d["packaging_url"]) >= 4
                     /\ SubSeq(d["packaging_url"], 1, 4) = "git/"
                  THEN [err |-> FALSE, config |-> [template |-> "placeholder"]]
                  ELSE [err |-> FALSE,
                        config |-> [template |-> job_type,
                                    PACKAGING_URL |-> d["packaging_url"],
                                    MERGE_COMMANDS |-> Cascade(d["cascade"]),
                                    NAME |-> d["name"]]]
             ELSE IF job_type = "release-mgmt"
             THEN [err |-> FALSE, config |-> [template |-> job_type]]
             ELSE [err |-> FALSE,
                   config |-> [template |-> job_type,
                               PACKAGING_URL |-> d["packaging_url"],
                               PACKAGING_BRANCH |-> d["packaging_branch"],
                               UPSTREAM_URL |-> d["upstream_url"],
                               NAME |-> d["name"],
                               RELEASE |-> d["release"],
                               UPLOAD_TARGET |-> d["upload_target"]]]

\* load_config(job_type, data): [err, config]
load_config(job_type, data) ==
    IF data = None
    THEN IF job_type = "release-mgmt"
         THEN [err |-> FALSE, config |-> [template |-> job_type]]
         ELSE [err |-> TRUE, config |-> [template |-> job_type]]
    ELSE LET d == data[1]
         IN  IF ~(KeysRead(job_type) \subseteq DOMAIN d)
                \/ job_type \notin {"package-stable", "package-unstable",
                                    "merger", "release-mgmt"}
             THEN [err |-> TRUE, config |-> [template |-> job_type]]
             ELSE IF job_type = "merger"
             THEN [err |-> FALSE,
                   config |-> [template |-> job_type,
                               PACKAGING_URL |-> d["packaging_url"],
                               MERGE_COMMANDS |-> Cascade(d["cascade"]),
                               NAME |-> d["name"]]]
             ELSE IF job_type = "release-mgmt"
             THEN [err |-> FALSE, config |-> [template |-> job_type]]
             ELSE [err |-> FALSE,
                   config |-> [template |-> job_type,
                               PACKAGING_URL |-> d["packaging_url"],
                               PACKAGING_BRANCH |-> d["packaging_branch"],
                               UPSTREAM_URL |-> d["upstream_url"],
                               NAME |-> d["name"],
                               RELEASE |-> d["release"],
                               UPLOAD_TARGET |-> d["upload_target"]]]

(***************************************************************************)
(* The job store: jobs maps a job name to its content, views maps a view   *)
(* name to the set of its member jobs.  A remote call is a record          *)
(* [op, name, view, config].                                               *)
(***************************************************************************)
EmptyServer == [jobs |-> <<>>, views |-> <<>>]

\* server.keys()
keys(s) == DOMAIN s.jobs

\* the effect of a remote call when add_job sets the members of the view
\* instead of adding to them
ApplyCall_add_job_replaces(s, c) ==
    IF c.op \in {"create_job", "update_config"}
    THEN [s EXCEPT !.jobs = Put(s.jobs, c.name, c.config)]
    ELSE IF c.op = "views.create"
    THEN [s EXCEPT !.views = Put(s.views, c.view, {})]
    ELSE [s EXCEPT !.views = Put(s.views, c.view, {c.name})]

\* the effect of one remote call on the job store
ApplyCall(s, c) ==
    IF c.op = "create_job" THEN [s EXCEPT !.jobs = Put(s.jobs, c.name, c.config)]
    ELSE IF c.op = "update_config"
    THEN [s EXCEPT !.jobs = Put(s.jobs, c.name, c.config)]
    ELSE IF c.op = "views.create"
    THEN [s EXCEPT !.views = Put(s.views, c.view, {})]
    ELSE [s EXCEPT !.views = Put(s.views, c.view, s.views[c.view] \cup {c.name})]

RECURSIVE ApplyCalls(_, _)
ApplyCalls(s, cs) ==
    IF cs = <<>> THEN s ELSE ApplyCalls(ApplyCall(s, Head(cs)), Tail(cs))

RemoteCall(op, name, view, config) ==
    [op |-> op, name |-> name, view |-> view, config |-> config]

\* create_jenkins_job without the test of line 221: every job is created
create_jenkins_job_unchecked(s, config, name, view) ==
    LET create == << RemoteCall("create_job", name, view, config) >>
        mkview == IF view \in DOMAIN s.views THEN <<>>
                  ELSE << RemoteCall("views.create", name, view, config) >>
        add == IF view \notin DOMAIN s.views \/ name \notin s.views[view]
               THEN << RemoteCall("add_job", name, view, config) >>
               ELSE <<>>
    IN  create \o mkview \o add

\* create_jenkins_job without the test of line 226: the view is created for
\* every new job
create_jenkins_job_new_view(s, config, name, view) ==
    IF name \in keys(s)
    THEN << RemoteCall("update_config", name, view, config) >>
    ELSE << RemoteCall("create_job", name, view, config),
            RemoteCall("views.create", name, view, config),
            RemoteCall("add_job", name, view, config) >>

\* create_jenkins_job without line 229: a missing view is not created, the
\* new job is left outside it
create_jenkins_job_no_view_create(s, config, name, view) ==
    IF name \in keys(s)
    THEN << RemoteCall("update_config", name, view, config) >>
    ELSE IF view \notin DOMAIN s.views
    THEN << RemoteCall("create_job", name, view, config) >>
    ELSE << RemoteCall("create_job", name, view, config) >>
         \o (IF name \notin s.views[view]
             THEN << RemoteCall("add_job", name, view, config) >>
             ELSE <<>>)

\* create_jenkins_job deciding on the identities the store held when the run
\* began and the ones the run has created since, instead of line 221's query
create_jenkins_job_snapshot(s, config, name, view) ==
    IF name \in keys(start)
       \/ \E j \in DOMAIN log : log[j].op = "create_job" /\ log[j].name = name
    THEN << RemoteCall("update_config", name, view, config) >>
    ELSE LET create == << RemoteCall("create_job", name, view, config) >>
             s1 == ApplyCalls(s, create)
             mkview == IF view \in DOMAIN s1.views THEN <<>>
                       ELSE << RemoteCall("views.create", name, view, config) >>
             s2 == ApplyCalls(s1, mkview)
             add == IF name \notin s2.views[view]
                    THEN << RemoteCall("add_job", name, view, config) >>
                    ELSE <<>>
         IN  create \o mkview \o add

\* create_jenkins_job: the remote calls the handler issues, in order, against
\* job store s.  An existing job is updated and its views are left alone; a
\* new job is created, its view is created when missing, and the job is
\* added to the view unless it is already a member.
create_jenkins_job(s, config, name, view) ==
    IF name \in keys(s)
    THEN << RemoteCall("update_config", name, view, config) >>
    ELSE LET create == << RemoteCall("create_job", name, view, config) >>
             s1 == ApplyCalls(s, create)
             mkview == IF view \in DOMAIN s1.views THEN <<>>
                       ELSE << RemoteCall("views.create", name, view, config) >>
             s2 == ApplyCalls(s1, mkview)
             add == IF name \notin s2.views[view]
                    THEN << RemoteCall("add_job", name, view, config) >>
                    ELSE <<>>
         IN  create \o mkview \o add

(***************************************************************************)
(* create_jenkins_jobs: the loops that derive the jobs.  Each loop yields  *)
(* [raises, calls]: the create_jenkins_job invocations it makes, in order, *)
(* and whether it then raises (a KeyError on a missing key or group).  An  *)
(* invocation is a record of the handler's arguments (config, name, view)  *)
(* and of what it was derived from.                                        *)
(***************************************************************************)
Invocation(kind, config, name, view, config_name, package, release, job_type) ==
    [kind |-> kind, config |-> config, name |-> name, view |-> view,
     config_name |-> config_name, package |-> package, release |-> release,
     job_type |-> job_type]

\* one loop after another: the second runs only if the first did not raise
Then(a, b) ==
    IF a.raises THEN a
    ELSE [raises |-> b.raises, calls |-> a.calls \o b.calls]

\* metadata["active_configs"][name]: the index of the group called name,
\* 0 when there is none
GroupIndex(md, name) ==
    IF \E g \in DOMAIN md : md[g].name = name
    THEN CHOOSE g \in DOMAIN md : md[g].name = name
    ELSE 0

\* line 277
merger_job_name(config_name, package_name) ==
    config_name \o "_" \o package_name

\* the name of lines 299-300 with the first two arguments exchanged
package_job_name_swapped(release, config_name, package_name) ==
    config_name \o "_" \o release \o "_" \o package_name

\* the name of lines 299-300 without the release
package_job_name_no_release(release, config_name, package_name) ==
    config_name \o "_" \o package_name

\* lines 299-300
package_job_name(release, config_name, package_name) ==
    release \o "_" \o config_name \o "_" \o package_name

\* line 301
package_view_name(release, job_type) == release \o " " \o job_type

\* line 313
mgmt_job_name(release, jobtype) == "mgmt_build_" \o release \o "_" \o jobtype

\* lines 274-279: the packages of parent group p for merger group c, from
\* package k on.  The cascade is stored on the parent's package itself, so
\* the document md is threaded through: [raises, calls, md].
RECURSIVE MergerPackages(_, _, _, _)
MergerPackages(md, c, p, k) ==
    IF k > Len(md[p].repositories)
    THEN [raises |-> FALSE, calls |-> <<>>, md |-> md]
    ELSE LET package == md[p].repositories[k]
             inherit == "cascade" \notin DOMAIN package
         IN  IF inherit /\ "cascade" \notin DOMAIN md[c].default
             THEN [raises |-> TRUE, calls |-> <<>>, md |-> md]
             ELSE LET pkg == IF inherit
                             THEN Put(package, "cascade",
                                      md[c].default["cascade"])
                             ELSE package
                      md2 == [md EXCEPT ![p].repositories[k] = pkg]
                      p_config == load_config("merger", Some(pkg))
                  IN  IF "name" \notin DOMAIN pkg \/ p_config.err
                      THEN [raises |-> TRUE, calls |-> <<>>, md |-> md2]
                      ELSE LET rest == MergerPackages(md2, c, p, k + 1)
                               name == merger_job_name(md[c].name, pkg["name"])
                           IN  [raises |-> rest.raises,
                                calls |-> << Invocation("merger",
                                                p_config.config, name, "merger",
                                                md[c].name, pkg, "",
                                                "merger") >>
                                          \o rest.calls,
                                md |-> rest.md]

\* lines 270-279: the merger groups from group c on, in document order
RECURSIVE MergerJobs(_, _)
MergerJobs(md, c) ==
    IF c > Len(md) THEN [raises |-> FALSE, calls |-> <<>>, md |-> md]
    ELSE IF md[c].default["type"] # "merger" THEN MergerJobs(md, c + 1)
    ELSE LET p == IF "parent" \in DOMAIN md[c].default
                  THEN GroupIndex(md, md[c].default["parent"])
                  ELSE 0
         IN  IF p = 0 \/ "repositories" \notin DOMAIN md[p]
             THEN [raises |-> TRUE, calls |-> <<>>, md |-> md]
             ELSE LET first == MergerPackages(md, c, p, 1)
                  IN  IF first.raises THEN first
                      ELSE LET rest == MergerJobs(first.md, c + 1)
                           IN  [raises |-> rest.raises,
                                calls |-> first.calls \o rest.calls,
                                md |-> rest.md]

\* lines 290-305: the releases of one package, from release r on
RECURSIVE ReleaseJobs(_, _, _, _)
ReleaseJobs(job_type, config_name, package, r) ==
    IF r > Len(package["releases"]) THEN [raises |-> FALSE, calls |-> <<>>]
    ELSE LET release == package["releases"][r]
             pkg == Put(package, "release", release)
             p_config == load_config("package-" \o job_type, Some(pkg))
         IN  IF p_config.err THEN [raises |-> TRUE, calls |-> <<>>]
             ELSE Then([raises |-> FALSE,
                        calls |-> << Invocation("package", p_config.config,
                                        package_job_name(release, config_name,
                                                         package["name"]),
                                        package_view_name(release, job_type),
                                        config_name, pkg, release,
                                        job_type) >>],
                       ReleaseJobs(job_type, config_name, package, r + 1))

\* lines 288-305: the packages of one group, from package k on
RECURSIVE RepositoryJobs(_, _, _)
RepositoryJobs(job_type, config, k) ==
    IF k > Len(config.repositories) THEN [raises |-> FALSE, calls |-> <<>>]
    ELSE IF "releases" \notin DOMAIN config.repositories[k]
    THEN [raises |-> TRUE, calls |-> <<>>]
    ELSE Then(ReleaseJobs(job_type, config.name, config.repositories[k], 1),
              RepositoryJobs(job_type, config, k + 1))

\* lines 284-305: the groups of one job type from group c on, in document
\* order
RECURSIVE ConfigJobs(_, _, _)
ConfigJobs(job_type, md, c) ==
    IF c > Len(md) THEN [raises |-> FALSE, calls |-> <<>>]
    ELSE IF md[c].default["type"] # job_type THEN ConfigJobs(job_type, md, c + 1)
    ELSE Then(RepositoryJobs(job_type, md[c], 1),
              ConfigJobs(job_type, md, c + 1))

\* lines 282-305
PackageJobs(md) == Then(ConfigJobs("stable", md, 1), ConfigJobs("unstable", md, 1))

\* total_rel filled in the stable pass of the loop only
total_rel_stable_only(calls) ==
    {calls[k].release : k \in {j \in DOMAIN calls :
                                   calls[j].kind = "package"
                                   /\ calls[j].job_type = "stable"}}

\* line 293: the releases added to total_rel by the package invocations
total_rel(calls) == {calls[k].release : k \in {j \in DOMAIN calls : calls[j].kind = "package"}}

\* lines 308-317: a management job per release and job type, the releases in
\* the order the set iterates in, then the aggregate job "merger"
RECURSIVE MgmtJobs(_)
MgmtJobs(order) ==
    LET p_config == load_config("release-mgmt", None)
    IN  IF p_config.err THEN [raises |-> TRUE, calls |-> <<>>]
        ELSE IF order = <<>>
        THEN [raises |-> FALSE,
              calls |-> << Invocation("mgmt", p_config.config, "merger", "mgmt",
                                      "", "", "", "") >>]
        ELSE Then([raises |-> FALSE,
                   calls |-> [t \in 1..2 |->
                       LET jobtype == <<"stable", "unstable">>[t]
                       IN  Invocation("mgmt", p_config.config,
                                      mgmt_job_name(Head(order), jobtype),
                                      "mgmt", "", "", Head(order), jobtype)]],
                  MgmtJobs(Tail(order)))

\* the orders a set can iterate in
Orders(S) == {o \in [1..Cardinality(S) -> S] : Range(o) = S}

\* lines 257-317 on the parsed document, total_rel iterating in the given
\* order (which is read only when the package loop did not raise)
Derive(md, order) ==
    LET mergers == MergerJobs(md, 1)
    IN  Then([raises |-> mergers.raises, calls |-> mergers.calls],
             Then(PackageJobs(mergers.md), MgmtJobs(order)))

\* the set total_rel holds when the management loop is reached
Releases(md) ==
    LET mergers == MergerJobs(md, 1)
        jobs == Then([raises |-> mergers.raises, calls |-> mergers.calls],
                     PackageJobs(mergers.md))
    IN  IF jobs.raises THEN {} ELSE total_rel(jobs.calls)

(***************************************************************************)
(* The metadata documents the runs are checked on.  A document is the      *)
(* sequence of its config groups [name, default, repositories], in the     *)
(* order of active_configs.                                                *)
(***************************************************************************)
Names == <<"foo", "bar">>

ReleaseLists == {<<"focal">>, <<"bionic", "focal">>}

\* a package that sets every key itself ("type" always comes from default)
FullPackage(name, releases) ==
    [name |-> name, releases |-> releases,
     packaging_url |-> "git/" \o name, packaging_branch |-> "ubuntu/" \o name,
     upload_target |-> "ppa:" \o name, default_branch |-> "master",
     upstream_url |-> "up/" \o name, upstream_branch |-> "main"]

\* a package that relies on the group's default for everything else
ShortPackage(name, releases) == [name |-> name, releases |-> releases]

\* a package with a key of neither list
BogusPackage(name, releases) == Put(FullPackage(name, releases), "bogus", "x")

\* a default block that sets the type only
BareDefault(type) == [type |-> type]

\* a default block that sets the shared keys, with the NAME token
RichDefault(type) ==
    [type |-> type, packaging_url |-> "git/NAME",
     packaging_branch |-> "ci/" \o type, upload_target |-> "ppa:ci",
     default_branch |-> "master", upstream_url |-> "up/NAME",
     upstream_branch |-> "main"]

\* repository lists of 1..max packages with distinct names (in the order of
\* Names), each package built by one of the given shapes
RepoLists(shapes, releases, max) ==
    LET package(n, sh, r) == IF sh = "full" THEN FullPackage(Names[n], r)
                             ELSE IF sh = "short" THEN ShortPackage(Names[n], r)
                             ELSE BogusPackage(Names[n], r)
        picks == {ns \in SUBSET (DOMAIN Names) :
                      Cardinality(ns) >= 1 /\ Cardinality(ns) <= max}
        \* the k-th smallest index of ns
        nth(ns, k) == CHOOSE n \in ns : Cardinality({m \in ns : m < n}) = k - 1
    IN  UNION {{[k \in 1..Cardinality(ns) |->
                     package(nth(ns, k), f[nth(ns, k)][1], f[nth(ns, k)][2])] :
                   f \in [ns -> shapes \X releases]} : ns \in picks}

Group(name, default, repositories) ==
    [name |-> name, default |-> default, repositories |-> repositories]

\* a merger group: its default names the parent group and the cascade; it
\* has no repositories of its own unless some are given
MergerGroup(name, parent, repositories) ==
    LET base == [type |-> "merger", cascade |-> <<"master", "ci/" \o name>>]
        default == IF parent = "" THEN base ELSE Put(base, "parent", parent)
    IN  IF repositories = <<>> THEN [name |-> name, default |-> default]
        ELSE Group(name, default, repositories)

\* well-formed package groups of up to max packages: the group "stable" of
\* type stable, and a group "main" of either type
PackageGroups(name, max) ==
    {Group(name, BareDefault(t), l) :
        t \in (IF name = "stable" THEN {"stable"} ELSE {"stable", "unstable"}),
        l \in RepoLists({"full"}, ReleaseLists, max)}

\* up to two merger groups; "gone" names no group
MergerSeqs ==
    LET one(name) == {<<MergerGroup(name, p, <<>>)>> : p \in {"stable", "gone"}}
    IN  {<<>>} \cup one("merge") \cup one("focal_stable")
        \cup {a \o b : a \in one("merge"), b \in one("focal_stable")}

\* documents of well-formed groups holding at most MaxRepos packages: one
\* or two package groups, then up to two merger groups
ReleaseDocs ==
    LET single == {<<a>> : a \in PackageGroups("stable", MaxRepos)
                                  \cup PackageGroups("main", MaxRepos)}
        double == UNION {{<<a, b>> : a \in PackageGroups("stable", n),
                                     b \in PackageGroups("main", MaxRepos - n)} :
                            n \in 1..(MaxRepos - 1)}
    IN  {g \o m : g \in single \cup double, m \in MergerSeqs}

\* documents that exercise the schema: a group "stable" whose packages and
\* default take every shape, alone, after a well-formed group "main",
\* before a merger group that has a repository with an invalid key, or
\* before a merger group without a parent
SchemaDocs ==
    LET stable == {Group("stable", d, l) :
                       d \in {BareDefault("stable"), RichDefault("stable")},
                       l \in RepoLists({"full", "short", "bogus"},
                                       {<<"focal">>}, MaxRepos)}
        main == Group("main", BareDefault("unstable"),
                      <<FullPackage("foo", <<"focal">>)>>)
    IN  {<<s>> : s \in stable}
        \cup {<<main, s>> : s \in stable}
        \cup {<<s, MergerGroup("merge", "stable",
                               <<BogusPackage("baz", <<"focal">>)>>)>> :
                  s \in stable}
        \cup {<<s, MergerGroup("merge", "", <<>>)>> : s \in stable}

\* branch lists: one branch, two, three, and one that repeats a branch
CascadeLists ==
    {<<"main">>, <<"main", "stable-1">>, <<"main", "stable-1", "stable-2">>,
     <<"main", "main">>}

\* documents that exercise the cascade: a group "stable" with package foo
\* and a merger group on it whose default cascade takes every shape; the
\* same with a second merger group whose parent is itself and whose own
\* repository (which parse_metadata does not look at) sets its cascade
CascadeDocs ==
    LET stable == Group("stable", BareDefault("stable"),
                        <<FullPackage("foo", <<"focal">>)>>)
        merge(b) == [name |-> "merge",
                     default |-> [type |-> "merger", parent |-> "stable",
                                  cascade |-> b]]
        own(b) == [name |-> "own",
                   default |-> [type |-> "merger", parent |-> "own",
                                cascade |-> <<"master", "ci/own">>],
                   repositories |->
                       <<Put(FullPackage("bar", <<"focal">>), "cascade", b),
                         FullPackage("baz", <<"focal">>)>>]
    IN  {<<stable, merge(b)>> : b \in CascadeLists}
        \cup {<<stable, merge(<<"main", "stable-1">>), own(b)>> :
                  b \in CascadeLists}

Docs == ReleaseDocs \cup SchemaDocs \cup CascadeDocs

InitialServers == {EmptyServer}

(***************************************************************************)
(* lp_check.py: the publication check.  lp holds the position of the       *)
(* check (pc), whether lines 52-54 found the PPA (ppa), the loop index i,  *)
(* the statuses the source polls returned (statuses), the number of        *)
(* getBuilds queries (bpolls), whether some poll found every build built   *)
(* and every binary published (good), and the error the check ended with   *)
(* (error).                                                                *)
(***************************************************************************)
\* lines 58 and 83: range(0, 24)
MaxIterations == 24

MaxBuilds == 2

MaxBinaries == 1

LpStart(found) ==
    [pc |-> "source", ppa |-> found, i |-> 0, statuses |-> <<>>, bpolls |-> 0,
     good |-> FALSE, error |-> ""]

\* what getPublishedSources may answer: no entry, or entries of which line
\* 62 takes the first
SourceResults ==
    {<<>>, <<"Pending">>, <<"Published">>, <<"Deleted">>, <<"Superseded">>,
     <<"Pending", "Published">>}

BuildStates ==
    {"Needs building", "Currently building", "Uploading build",
     "Successfully built", "Failed to build"}

BinaryStatuses == {"Pending", "Published", "Deleted"}

SeqsUpTo(S, n) == UNION {[1..m -> S] : m \in 0..n}

\* the source loop ends without a result when the index leaves the range
\* after 23 instead of 24
source_step_early(l, result) ==
    IF ~l.ppa THEN [l EXCEPT !.pc = "raised", !.error = "UnboundLocalError"]
    ELSE IF result = <<>> THEN [l EXCEPT !.pc = "raised", !.error = "IndexError"]
    ELSE LET status == result[1]
             polled == [l EXCEPT !.statuses = Append(@, status)]
         IN  IF status # "Pending" /\ status # "Published"
             THEN [polled EXCEPT !.pc = "raised",
                                 !.error = "Source package no longer exists"]
             ELSE IF status = "Published"
             THEN [polled EXCEPT !.pc = "binaries", !.i = 0]
             ELSE IF l.i + 1 < MaxIterations - 1
             THEN [polled EXCEPT !.i = l.i + 1]
             ELSE [polled EXCEPT !.pc = "raised",
                                 !.error = "Timed out, contact Launchpad admins"]

\* the source loop without the test of lines 65-66: any status that is not
\* Pending counts as published
source_step_any_status(l, result) ==
    IF ~l.ppa THEN [l EXCEPT !.pc = "raised", !.error = "UnboundLocalError"]
    ELSE IF result = <<>> THEN [l EXCEPT !.pc = "raised", !.error = "IndexError"]
    ELSE LET status == result[1]
             polled == [l EXCEPT !.statuses = Append(@, status)]
         IN  IF status # "Pending"
             THEN [polled EXCEPT !.pc = "binaries", !.i = 0]
             ELSE IF l.i + 1 < MaxIterations
             THEN [polled EXCEPT !.i = l.i + 1]
             ELSE [polled EXCEPT !.pc = "raised",
                                 !.error = "Timed out, contact Launchpad admins"]

\* lines 58-74: one iteration of the loop of verify_source_published, on
\* the answer of getPublishedSources.  ppa is unbound when lines 52-54 found
\* no PPA; [0] of an empty answer is an IndexError; after the sleep of the
\* last iteration the loop is left and line 74 raises.
source_step(l, result) ==
    IF ~l.ppa THEN [l EXCEPT !.pc = "raised", !.error = "UnboundLocalError"]
    ELSE IF result = <<>> THEN [l EXCEPT !.pc = "raised", !.error = "IndexError"]
    ELSE LET status == result[1]
             polled == [l EXCEPT !.statuses = Append(@, status)]
         IN  IF status # "Pending" /\ status # "Published"
             THEN [polled EXCEPT !.pc = "raised",
                                 !.error = "Source package no longer exists"]
             ELSE IF status = "Published"
             THEN [polled EXCEPT !.pc = "binaries", !.i = 0]
             ELSE IF l.i + 1 < MaxIterations
             THEN [polled EXCEPT !.i = l.i + 1]
             ELSE [polled EXCEPT !.pc = "raised",
                                 !.error = "Timed out, contact Launchpad admins"]

\* lines 88-99: the loop over the builds: an error, or need_sleep
builds_loop(builds) ==
    IF \E k \in DOMAIN builds :
           builds[k] \notin {"Needs building", "Currently building",
                             "Uploading build", "Successfully built"}
    THEN [error |-> "One or more builds have an error", need_sleep |-> FALSE]
    ELSE [error |-> "",
          need_sleep |-> \E k \in DOMAIN builds : builds[k] # "Successfully built"]

\* lines 102-109: the loop over the published binaries.  The print of lines
\* 104 and 107 reads binary_package_name, a name that is bound nowhere.
binaries_loop(binaries) ==
    IF binaries = <<>> THEN [error |-> "", need_sleep |-> FALSE]
    ELSE IF binaries[1] \in {"Pending", "Published"}
    THEN [error |-> "NameError", need_sleep |-> FALSE]
    ELSE [error |-> "One or more builds can't publish", need_sleep |-> FALSE]

\* every build built and every binary published
GoodPoll(builds, binaries) ==
    /\ \A k \in DOMAIN builds : builds[k] = "Successfully built"
    /\ \A k \in DOMAIN binaries : binaries[k] = "Published"

\* lines 83-120: one iteration of the loop of verify_binaries_published, on
\* the answers of getBuilds and getPublishedBinaries (index_error: a query
\* raises IndexError, which line 110 catches).  The break of line 118 and
\* the end of the range both lead to line 120, which raises.
binaries_step(l, builds, binaries, index_error) ==
    LET b == builds_loop(builds)
        p == binaries_loop(binaries)
        queried == [l EXCEPT !.bpolls = l.bpolls + 1,
                             !.good = l.good \/ (~index_error
                                                 /\ GoodPoll(builds, binaries))]
        timeout == "Timed out, contact Launchpad admins"
    IN  IF index_error
        THEN IF l.i + 1 < MaxIterations THEN [queried EXCEPT !.i = l.i + 1]
             ELSE [queried EXCEPT !.pc = "raised", !.error = timeout]
        ELSE IF b.error # "" THEN [queried EXCEPT !.pc = "raised", !.error = b.error]
        ELSE IF p.error # "" THEN [queried EXCEPT !.pc = "raised", !.error = p.error]
        ELSE IF b.need_sleep \/ p.need_sleep
        THEN IF l.i + 1 < MaxIterations THEN [queried EXCEPT !.i = l.i + 1]
             ELSE [queried EXCEPT !.pc = "raised", !.error = timeout]
        ELSE [queried EXCEPT !.pc = "raised", !.error = timeout]

(***************************************************************************)
(* timer_metrics.py: the timers.  timer.data is the dictionary of the      *)
(* class (name -> [running, start_time, total_time]); now is the value     *)
(* time.perf_counter() returns, in ticks.  wrapped tells that run(label)   *)
(* has decorated the function, in_call that an invocation of the wrapped   *)
(* function is under way, began when it began, calls how many have ended   *)
(* and spent the sum of their durations; touched that start or stop has    *)
(* been called on the label from elsewhere; last is the last operation     *)
(* [op, name, t_val, before, error], before being data as it found it.     *)
(***************************************************************************)
MaxClock == 2

MaxCalls == 2

label == "Create jobs and add to views"

TimerNames == {label, "Total"}

NoOp == [op |-> "", name |-> "", t_val |-> 0, before |-> <<>>, error |-> ""]

TimerStart ==
    [data |-> <<>>, now |-> 0, wrapped |-> FALSE, in_call |-> FALSE,
     began |-> 0, calls |-> 0, spent |-> 0, touched |-> FALSE, last |-> NoOp]

\* lines 45-74: start(name) at time t_val, on dictionary data
timer_start(data, name, t_val) ==
    IF name \notin DOMAIN data
    THEN Put(data, name, [running |-> TRUE, start_time |-> t_val, total_time |-> 0])
    ELSE IF data[name].running = FALSE
    THEN [data EXCEPT ![name].running = TRUE, ![name].start_time = t_val]
    ELSE data

\* stop(name) without the test of line 93: the time since start_time is
\* added whether or not the timer runs
timer_stop_unchecked(data, name, t_val) ==
    IF name \notin DOMAIN data THEN [data |-> data, error |-> "KeyError"]
    ELSE [data |-> [data EXCEPT ![name].running = FALSE,
                                ![name].total_time = @ + (t_val - data[name].start_time)],
          error |-> ""]

\* lines 76-100: stop(name) at time t_val: [data, error].  Line 90 asserts
\* an exception object, which is true, so it raises nothing; for a name
\* without a timer line 93 raises KeyError.
timer_stop(data, name, t_val) ==
    IF name \notin DOMAIN data THEN [data |-> data, error |-> "KeyError"]
    ELSE IF data[name].running = TRUE
    THEN [data |-> [data EXCEPT ![name].running = FALSE,
                                ![name].total_time = @ + (t_val - data[name].start_time)],
          error |-> ""]
    ELSE [data |-> data, error |-> ""]

(***************************************************************************)
(* The runs.  pc is the position of the current run; plan holds the        *)
(* invocations the loops of this run make and i the next one; log is the   *)
(* remote calls of this run; start is the job store when the run began;    *)
(* past records how the finished runs began and ended; failed tells that a *)
(* remote call has failed (one does at most, in one behaviour).            *)
(***************************************************************************)
NoPlan == [raises |-> FALSE, calls |-> <<>>]

Init ==
    /\ metadata \in Docs
    /\ server \in InitialServers
    /\ pc = "idle"
    /\ plan = NoPlan
    /\ i = 1
    /\ log = <<>>
    /\ start = server
    /\ past = <<>>
    /\ failed = FALSE
    /\ lp = LpStart(TRUE)
    /\ timer = TimerStart

\* the remote calls of invocation k, as logged
Logged(calls, k, kind) ==
    [n \in DOMAIN calls |->
        [op |-> calls[n].op, name |-> calls[n].name, view |-> calls[n].view,
         config |-> calls[n].config, kind |-> kind, call |-> k]]

\* lines 253-255: parse_metadata raises; nothing has been sent to the store
Reject ==
    /\ pc = "idle"
    /\ parse_metadata(metadata).err
    /\ pc' = "rejected"
    /\ UNCHANGED <<lp, timer, metadata, server, plan, i, log, start, past, failed>>

\* lines 253-266: the metadata parses; the loops are entered
Begin ==
    /\ pc = "idle"
    /\ ~parse_metadata(metadata).err
    /\ LET md == parse_metadata(metadata).active_configs
       IN  \E order \in Orders(Releases(md)) : plan' = Derive(md, order)
    /\ pc' = "running"
    /\ i' = 1
    /\ UNCHANGED <<lp, timer, metadata, server, log, start, past, failed>>

\* one create_jenkins_job invocation of the loops, all its remote calls
Apply ==
    /\ pc = "running"
    /\ i <= Len(plan.calls)
    /\ LET c == plan.calls[i]
           calls == create_jenkins_job(server, c.config, c.name, c.view)
       IN  /\ server' = ApplyCalls(server, calls)
           /\ log' = log \o Logged(calls, i, c.kind)
    /\ i' = i + 1
    /\ UNCHANGED <<lp, timer, metadata, pc, plan, start, past, failed>>

\* a remote call of the invocation fails: the calls before it have been
\* applied, the exception ends the run (lines 222-233 raise)
Fail ==
    /\ pc = "running"
    /\ i <= Len(plan.calls)
    /\ ~failed
    /\ LET c == plan.calls[i]
           calls == create_jenkins_job(server, c.config, c.name, c.view)
       IN  \E n \in 0..(Len(calls) - 1) :
               /\ server' = ApplyCalls(server, SubSeq(calls, 1, n))
               /\ log' = log \o Logged(SubSeq(calls, 1, n), i, c.kind)
    /\ pc' = "aborted"
    /\ failed' = TRUE
    /\ UNCHANGED <<lp, timer, metadata, plan, i, start, past>>

\* a loop raises on a missing key or group after the invocations before it
Crash ==
    /\ pc = "running"
    /\ i > Len(plan.calls)
    /\ plan.raises
    /\ pc' = "crashed"
    /\ UNCHANGED <<lp, timer, metadata, server, plan, i, log, start, past, failed>>

\* line 317 returns
Finish ==
    /\ pc = "running"
    /\ i > Len(plan.calls)
    /\ ~plan.raises
    /\ pc' = "done"
    /\ UNCHANGED <<lp, timer, metadata, server, plan, i, log, start, past, failed>>

\* the program is run again on the same metadata
NextRun ==
    /\ pc \in {"rejected", "crashed", "aborted", "done"}
    /\ Len(past) + 1 < MaxRuns
    /\ past' = Append(past, [start |-> start, end |-> server, outcome |-> pc])
    /\ start' = server
    /\ log' = <<>>
    /\ plan' = NoPlan
    /\ i' = 1
    /\ pc' = "idle"
    /\ UNCHANGED <<lp, timer, metadata, server, failed>>

Next == Reject \/ Begin \/ Apply \/ Fail \/ Crash \/ Finish \/ NextRun

Spec == Init /\ [][Next]_vars

(***************************************************************************)
(* The same runs against a job store that is already populated: a job      *)
(* old_job that no document derives, member of its own view and of the     *)
(* view "focal stable", and a job focal_stable_foo left by an earlier      *)
(* generation of the metadata, with other content.                         *)
(***************************************************************************)
SeededServer ==
    [jobs |-> [old_job |-> [template |-> "package-stable", NAME |-> "old"],
               focal_stable_foo |-> [template |-> "package-stable",
                                     NAME |-> "foo"]],
     views |-> [x \in {"old view", "focal stable"} |->
                   IF x = "old view" THEN {"old_job", "focal_stable_foo"}
                   ELSE {"old_job"}]]

InitSeeded ==
    /\ metadata \in SchemaDocs \cup CascadeDocs
    /\ server = SeededServer
    /\ pc = "idle"
    /\ plan = NoPlan
    /\ i = 1
    /\ log = <<>>
    /\ start = server
    /\ past = <<>>
    /\ failed = FALSE
    /\ lp = LpStart(TRUE)
    /\ timer = TimerStart

SpecSeeded == InitSeeded /\ [][Next]_vars

(***************************************************************************)
(* The same runs while somebody else uses the job store: during a run, and *)
(* once per run, another client creates a job, under a name the run is     *)
(* still to derive or under a name of its own.  The creation is logged     *)
(* with op "external"; it is no call of the run.                           *)
(***************************************************************************)
ExternalDocs == {d \in SchemaDocs : Len(d) = 1} \cup CascadeDocs

InitExternal ==
    /\ metadata \in ExternalDocs
    /\ server = EmptyServer
    /\ pc = "idle"
    /\ plan = NoPlan
    /\ i = 1
    /\ log = <<>>
    /\ start = server
    /\ past = <<>>
    /\ failed = FALSE
    /\ lp = LpStart(TRUE)
    /\ timer = TimerStart

ExternalCreate ==
    /\ pc = "running"
    /\ \A j \in DOMAIN log : log[j].op # "external"
    /\ \E name \in ({plan.calls[k].name : k \in i..Len(plan.calls)}
                      \cup {"stray_job"}) \ keys(server) :
           LET config == [template |-> "external"]
           IN  /\ server' = ApplyCall(server,
                                RemoteCall("create_job", name, "", config))
               /\ log' = Append(log, [op |-> "external", name |-> name,
                                      view |-> "", config |-> config,
                                      kind |-> "external", call |-> i])
    /\ UNCHANGED <<lp, timer, metadata, pc, plan, i, start, past, failed>>

NextExternal == Next \/ ExternalCreate

SpecExternal == InitExternal /\ [][NextExternal]_vars

\* the variables of the job generator, at rest
GeneratorIdle ==
    /\ metadata = <<>>
    /\ server = EmptyServer
    /\ pc = "idle"
    /\ plan = NoPlan
    /\ i = 1
    /\ log = <<>>
    /\ start = EmptyServer
    /\ past = <<>>
    /\ failed = FALSE

generator == <<metadata, server, pc, plan, i, log, start, past, failed>>

(***************************************************************************)
(* The publication check: verify_binaries_published first runs             *)
(* verify_source_published (line 79), then its own loop.  One action per   *)
(* iteration of either loop.                                               *)
(***************************************************************************)
InitLp ==
    /\ GeneratorIdle
    /\ lp \in {LpStart(found) : found \in BOOLEAN}
    /\ timer = TimerStart

\* lines 58-74: an iteration of the source loop
PollSource ==
    /\ lp.pc = "source"
    /\ \E result \in SourceResults : lp' = source_step(lp, result)
    /\ UNCHANGED <<generator, timer>>

\* lines 83-120: an iteration of the binaries loop
PollBinaries ==
    /\ lp.pc = "binaries"
    /\ \E index_error \in BOOLEAN :
           \E builds \in SeqsUpTo(BuildStates, MaxBuilds) :
               \E binaries \in SeqsUpTo(BinaryStatuses, MaxBinaries) :
                   /\ index_error => builds = <<>> /\ binaries = <<>>
                   /\ lp' = binaries_step(lp, builds, binaries, index_error)
    /\ UNCHANGED <<generator, timer>>

NextLp == PollSource \/ PollBinaries

SpecLp == InitLp /\ [][NextLp]_vars

\* the check is a sequential program: a loop that can iterate does
FairSpecLp == SpecLp /\ WF_vars(PollSource) /\ WF_vars(PollBinaries)

(***************************************************************************)
(* The timers: a function decorated with run(label) and invoked, and       *)
(* start and stop called directly.                                         *)
(***************************************************************************)
InitTimer ==
    /\ GeneratorIdle
    /\ lp = LpStart(TRUE)
    /\ timer = TimerStart

\* time passes
Tick ==
    /\ timer.now < MaxClock
    /\ timer' = [timer EXCEPT !.now = @ + 1]
    /\ UNCHANGED <<generator, lp>>

\* lines 102-117: run(label) decorates the function: line 108 starts the
\* timer, then and only then
Decorate ==
    /\ ~timer.wrapped
    /\ timer' = [timer EXCEPT !.wrapped = TRUE,
                              !.data = timer_start(timer.data, label, timer.now),
                              !.last = [op |-> "start", name |-> label,
                                        t_val |-> timer.now,
                                        before |-> timer.data, error |-> ""]]
    /\ UNCHANGED <<generator, lp>>

\* lines 111-113: the wrapped function is invoked; run_function calls it
CallBegin ==
    /\ timer.wrapped
    /\ ~timer.in_call
    /\ timer.calls < MaxCalls
    /\ timer' = [timer EXCEPT !.in_call = TRUE, !.began = timer.now]
    /\ UNCHANGED <<generator, lp>>

\* lines 113-115: the function returns or raises; finally, stop(label)
CallEnd ==
    /\ timer.in_call
    /\ LET r == timer_stop(timer.data, label, timer.now)
       IN  timer' = [timer EXCEPT !.in_call = FALSE,
                                  !.calls = @ + 1,
                                  !.spent = @ + (timer.now - timer.began),
                                  !.data = r.data,
                                  !.last = [op |-> "stop", name |-> label,
                                            t_val |-> timer.now,
                                            before |-> timer.data,
                                            error |-> r.error]]
    /\ UNCHANGED <<generator, lp>>

\* start(name) called directly
Start ==
    /\ \E name \in TimerNames :
           timer' = [timer EXCEPT !.data = timer_start(timer.data, name, timer.now),
                                  !.touched = @ \/ name = label,
                                  !.last = [op |-> "start", name |-> name,
                                            t_val |-> timer.now,
                                            before |-> timer.data, error |-> ""]]
    /\ UNCHANGED <<generator, lp>>

\* stop(name) called directly
Stop ==
    /\ \E name \in TimerNames :
           LET r == timer_stop(timer.data, name, timer.now)
           IN  timer' = [timer EXCEPT !.data = r.data,
                                      !.touched = @ \/ name = label,
                                      !.last = [op |-> "stop", name |-> name,
                                                t_val |-> timer.now,
                                                before |-> timer.data,
                                                error |-> r.error]]
    /\ UNCHANGED <<generator, lp>>

NextTimer == Tick \/ Decorate \/ CallBegin \/ CallEnd \/ Start \/ Stop

SpecTimer == InitTimer /\ [][NextTimer]_vars

(***************************************************************************)
(* Vocabulary of the properties.                                           *)
(***************************************************************************)
\* the log entries that create or update a job
Applies(l) == {k \in DOMAIN l : l[k].op \in {"create_job", "update_config"}}

\* the invocations of the current run that derive the same identity as an
\* earlier invocation of the run
Rederived(calls) ==
    {k \in DOMAIN calls : \E j \in 1..(k - 1) : calls[j].name = calls[k].name}

\* the groups of the raw document that yield package jobs
PackageGroupsOf(doc) ==
    {c \in DOMAIN doc : doc[c].default["type"] \in {"stable", "unstable"}}

\* the job store after a complete run that makes the given invocations
RECURSIVE RunAll(_, _)
RunAll(s, calls) ==
    IF calls = <<>> THEN s
    ELSE LET c == Head(calls)
         IN  RunAll(ApplyCalls(s, create_jenkins_job(s, c.config, c.name, c.view)),
                    Tail(calls))

\* the current run is the second one, after a first run that completed
\* from the empty job store
SecondOfTwo ==
    /\ Len(past) = 1
    /\ past[1].outcome = "done"
    /\ past[1].start = EmptyServer

(***************************************************************************)
(* C1. Idempotence: after a complete run from the empty job store, a       *)
(* second complete run on the same metadata leaves the job store (jobs,    *)
(* contents, views, members) exactly as the first run left it, and its     *)
(* only remote calls are updates.                                          *)
(***************************************************************************)
C1_Idempotent ==
    (pc = "done" /\ SecondOfTwo) =>
        /\ server = past[1].end
        /\ \A k \in DOMAIN log : log[k].op = "update_config"
        /\ Len(log) = Len(plan.calls)

\* a second run has completed on a store where the first run created jobs,
\* created views and filled them
C1_Witness ==
    /\ pc = "done" /\ SecondOfTwo
    /\ Len(log) >= 4
    /\ DOMAIN past[1].end.views # {}
    /\ \E v \in DOMAIN server.views : Cardinality(server.views[v]) >= 2

(***************************************************************************)
(* C2. Within one complete run every derived job identity receives exactly *)
(* one apply: an update if the identity was in the job store when the run  *)
(* started, a create if it was not.                                        *)
(***************************************************************************)
C2_OncePerIdentity ==
    pc = "done" =>
        \A k \in DOMAIN plan.calls :
            LET name == plan.calls[k].name
                applied == {j \in Applies(log) : log[j].name = name}
            IN  /\ Cardinality(applied) = 1
                /\ \A j \in applied :
                       log[j].op = IF name \in keys(start) THEN "update_config"
                                   ELSE "create_job"

(***************************************************************************)
(* C2 as amended.  Within one complete run every invocation, in order,     *)
(* makes exactly one apply, of its own identity and content: an update if  *)
(* the identity was in the job store when the run started or an earlier    *)
(* invocation of the run derived it too, a create otherwise.  So an        *)
(* identity that one invocation derives receives exactly one apply, chosen *)
(* by the job store at the start of the run.                               *)
(***************************************************************************)
C2_OncePerInvocation ==
    pc = "done" =>
        \A k \in DOMAIN plan.calls :
            LET c == plan.calls[k]
                applied == {j \in Applies(log) : log[j].call = k}
            IN  /\ Cardinality(applied) = 1
                /\ Cardinality(Applies(log)) = Len(plan.calls)
                /\ \A j \in applied :
                       /\ log[j].name = c.name
                       /\ log[j].config = c.config
                       /\ \A h \in Applies(log) : log[h].call < k => h < j
                       /\ log[j].op = IF c.name \in keys(start) \/ k \in Rederived(plan.calls)
                                      THEN "update_config"
                                      ELSE "create_job"

\* a complete second run in which one identity is derived twice, one
\* identity was in the store at the start, and the first run created jobs
C2_Witness ==
    /\ pc = "done"
    /\ Len(past) = 1
    /\ keys(past[1].end) # {}
    /\ \E k \in DOMAIN log : log[k].op = "update_config"
    /\ \E k \in DOMAIN plan.calls :
           k \notin Rederived(plan.calls) /\ plan.calls[k].name \in keys(start)
    /\ Rederived(plan.calls) # {}

(***************************************************************************)
(* C3. After a complete run from any job store, every derived job is a     *)
(* member of its view: a package job of "{release} {jobtype}", a merger    *)
(* job of "merger", a management job of "mgmt".  Stated for the runs in    *)
(* which no two invocations derive the same identity.                      *)
(***************************************************************************)
C3_EveryJobInItsView ==
    (pc = "done" /\ Rederived(plan.calls) = {}) =>
        \A k \in DOMAIN plan.calls :
            LET c == plan.calls[k]
                view == IF c.kind = "package" THEN c.release \o " " \o c.job_type
                        ELSE IF c.kind = "merger" THEN "merger"
                        ELSE "mgmt"
            IN  /\ view \in DOMAIN server.views
                /\ c.name \in server.views[view]

(***************************************************************************)
(* C4. A run aborted by a remote-call failure, followed by a complete run  *)
(* on the same metadata, leaves the job store as one complete run from the *)
(* original state would.                                                   *)
(***************************************************************************)
C4_RerunCompletes ==
    (pc = "done" /\ Len(past) >= 1 /\ past[Len(past)].outcome = "aborted") =>
        server = RunAll(past[Len(past)].start, plan.calls)

(***************************************************************************)
(* C5. A run that aborts on a schema validation error (an invalid key, a   *)
(* required key missing from package and default, a merger group whose     *)
(* parent is missing or names no group) has made no change to the job      *)
(* store.                                                                  *)
(***************************************************************************)
C5_NothingAppliedOnSchemaError ==
    pc \in {"rejected", "crashed"} => (server = start /\ log = <<>>)

(***************************************************************************)
(* C6. After parse_metadata, a package that lacked a required key its      *)
(* group's default has holds the default's value, a key the package had    *)
(* keeps the package's value (both after the NAME substitution), and a     *)
(* package lacking a required key that the default lacks too makes         *)
(* parse_metadata raise.                                                   *)
(***************************************************************************)
Substituted(value, key, package) ==
    IF key \in ListKeys \/ "name" \notin DOMAIN package THEN value
    ELSE Replace(value, "NAME", package["name"])

C6_DefaultsOrError ==
    pc \in {"running", "done", "crashed", "aborted"} =>
        \A c \in PackageGroupsOf(metadata) :
            \A p \in DOMAIN metadata[c].repositories :
                LET raw == metadata[c].repositories[p]
                    default == metadata[c].default
                    out == parse_metadata(metadata).active_configs[c].repositories[p]
                IN  \A key \in Range(mdata_req_keys) :
                        /\ key \in DOMAIN raw \/ key \in DOMAIN default
                        /\ key \in DOMAIN out
                        /\ out[key] = Substituted(IF key \in DOMAIN raw THEN raw[key]
                                                  ELSE default[key], key, raw)

(***************************************************************************)
(* C7. A key of neither list on any package of any config group makes      *)
(* parse_metadata raise: the run ends before the loops, nothing is         *)
(* derived, nothing is sent to the job store.                              *)
(***************************************************************************)
HasInvalidKey(doc, groups) ==
    \E c \in groups :
        /\ "repositories" \in DOMAIN doc[c]
        /\ \E p \in DOMAIN doc[c].repositories :
               \E key \in DOMAIN doc[c].repositories[p] :
                   key \notin Range(mdata_req_keys) \cup Range(mdata_opt_keys)

DocumentRejected ==
    /\ pc \in {"idle", "rejected"}
    /\ plan = NoPlan
    /\ log = <<>>
    /\ server = start

C7_AnyGroupRejects ==
    HasInvalidKey(metadata, DOMAIN metadata) => DocumentRejected

(***************************************************************************)
(* C7 as amended.  A key of neither list on any package of any config      *)
(* group whose default type is not merger makes parse_metadata raise,      *)
(* whatever else the document holds; the packages of merger groups are not *)
(* looked at.                                                              *)
(***************************************************************************)
C7_NonMergerGroupRejects ==
    HasInvalidKey(metadata, {c \in DOMAIN metadata :
                                 metadata[c].default["type"] # "merger"})
        => DocumentRejected

\* rejected for the second package of the second group, every other
\* package of the document being valid
C7_Witness ==
    /\ pc = "rejected"
    /\ Len(metadata) = 2
    /\ ~HasInvalidKey(metadata, {1})
    /\ metadata[2].default["type"] # "merger"
    /\ Len(metadata[2].repositories) = 2
    /\ "bogus" \notin DOMAIN metadata[2].repositories[1]
    /\ "bogus" \in DOMAIN metadata[2].repositories[2]

(***************************************************************************)
(* C8. The package jobs a complete run applies are exactly the identities  *)
(* "{release}_{jobtype}_{name}" of the packages and releases of the stable *)
(* and unstable groups, jobtype being the group's type.                    *)
(***************************************************************************)
PackageJobsApplied ==
    {log[j].name : j \in {h \in Applies(log) : log[h].kind = "package"}}

\* the identities of the document's packages, middle[c] being the middle
\* part of the name for group c
PackageIdentities(doc, middle) ==
    UNION {UNION {{r \o "_" \o middle[c] \o "_" \o doc[c].repositories[p]["name"] :
                      r \in Range(doc[c].repositories[p]["releases"])} :
                  p \in DOMAIN doc[c].repositories} :
           c \in PackageGroupsOf(doc)}

TypeOf(c) == metadata[c].default["type"]

NameOf(c) == metadata[c].name

C8_NamedByJobType ==
    pc = "done" => PackageJobsApplied = PackageIdentities(metadata, [c \in DOMAIN metadata |-> TypeOf(c)])

(***************************************************************************)
(* C8 as amended.  The package jobs a complete run applies are exactly the *)
(* identities "{release}_{group}_{name}", group being the name of the      *)
(* config group; this is "{release}_{jobtype}_{name}" only for a group     *)
(* named after its type.                                                   *)
(***************************************************************************)
C8_NamedByGroup ==
    pc = "done" =>
        /\ PackageJobsApplied = PackageIdentities(metadata, [c \in DOMAIN metadata |-> NameOf(c)])
        /\ \A c \in PackageGroupsOf(metadata) :
               NameOf(c) = TypeOf(c) =>
                   \A p \in DOMAIN metadata[c].repositories :
                       \A r \in Range(metadata[c].repositories[p]["releases"]) :
                           (r \o "_" \o TypeOf(c) \o "_" \o metadata[c].repositories[p]["name"])
                               \in PackageJobsApplied

\* a complete run on a group "stable" of type stable with package foo on
\* bionic and a group "main" of another type
C8_Witness ==
    /\ pc = "done"
    /\ "bionic_stable_foo" \in PackageJobsApplied
    /\ \E c \in PackageGroupsOf(metadata) :
           NameOf(c) = "main" /\ TypeOf(c) = "unstable"
    /\ "focal_main_bar" \in PackageJobsApplied

(***************************************************************************)
(* C9. With R the releases of the packages of the stable and unstable      *)
(* groups, a complete run applies each of mgmt_build_{r}_{stable} and      *)
(* mgmt_build_{r}_{unstable}, r in R, once, the aggregate job "merger"     *)
(* once, and no other management job.                                      *)
(***************************************************************************)
ReleasesOf(doc) ==
    UNION {UNION {Range(doc[c].repositories[p]["releases"]) :
                      p \in DOMAIN doc[c].repositories} :
           c \in PackageGroupsOf(doc)}

MgmtApplies == {j \in Applies(log) : log[j].kind = "mgmt"}

C9_MgmtComplete ==
    pc = "done" =>
        /\ \A r \in ReleasesOf(metadata) :
               \A t \in {"stable", "unstable"} :
                   Cardinality({j \in MgmtApplies :
                       log[j].name = "mgmt_build_" \o r \o "_" \o t}) = 1
        /\ Cardinality({j \in MgmtApplies : log[j].name = "merger"}) = 1
        /\ Cardinality(MgmtApplies) = 2 * Cardinality(ReleasesOf(metadata)) + 1

\* a complete run over two releases, one of them on two packages, every
\* group being of type unstable
C9_Witness ==
    /\ pc = "done"
    /\ ReleasesOf(metadata) = {"bionic", "focal"}
    /\ \A c \in PackageGroupsOf(metadata) : TypeOf(c) = "unstable"
    /\ \E c \in PackageGroupsOf(metadata) :
           /\ Len(metadata[c].repositories) = 2
           /\ \A p \in 1..2 : "focal" \in Range(metadata[c].repositories[p]["releases"])
    /\ Cardinality(MgmtApplies) = 5

(***************************************************************************)
(* C10. In a complete run from the empty job store, the view               *)
(* "{release} {jobtype}" of a release and job type that several packages   *)
(* target is created exactly once and ends with exactly their package job  *)
(* identities as members.                                                  *)
(***************************************************************************)
\* the package invocations of release r and job type t
PackageCallsOf(r, t) ==
    {k \in DOMAIN plan.calls :
        /\ plan.calls[k].kind = "package"
        /\ plan.calls[k].release = r
        /\ plan.calls[k].job_type = t}

ViewCreatedOnceWithMembers(view, members) ==
    /\ Cardinality({j \in DOMAIN log : log[j].op = "views.create"
                                       /\ log[j].view = view}) = 1
    /\ view \in DOMAIN server.views
    /\ server.views[view] = members

MgmtViewCreations ==
    {j \in DOMAIN log : log[j].op = "views.create" /\ log[j].view = "mgmt"}

C11_MissingMgmtViewIsFatal ==
    /\ pc = "done" => "mgmt" \in DOMAIN start.views
    /\ MgmtViewCreations = {}

(***************************************************************************)
(* C11 as amended.  A missing view mgmt is not fatal.  A management job    *)
(* that is new to the store is created and, once its invocation is over,   *)
(* is a member of the view mgmt, which the run creates itself, at most     *)
(* once and only when the store does not have it; a management job that is *)
(* already in the store is updated and the view is left alone.             *)
(***************************************************************************)
C11_MgmtViewCreatedLazily ==
    /\ \A j \in DOMAIN log :
           (log[j].kind = "mgmt" /\ log[j].op = "create_job" /\ log[j].call < i) =>
               /\ "mgmt" \in DOMAIN server.views
               /\ log[j].name \in server.views["mgmt"]
    /\ \A j \in DOMAIN log :
           (log[j].kind = "mgmt" /\ log[j].op = "update_config") =>
               \A n \in DOMAIN log : log[n].call = log[j].call => n = j
    /\ Cardinality(MgmtViewCreations) <= 1
    /\ MgmtViewCreations # {} => "mgmt" \notin DOMAIN start.views

\* a run that started without the view mgmt, created it and completed
C11_Witness ==
    /\ pc = "done"
    /\ "mgmt" \notin DOMAIN start.views
    /\ MgmtViewCreations # {}
    /\ "mgmt_build_focal_stable" \in server.views["mgmt"]


(***************************************************************************)
(* C12.  The merge script of a cascade of pairwise distinct branches       *)
(* [b0, ..., bn] is: checkout b0, then for i = 1..n, in this order, the    *)
(* checkout-or-create of bi, the fast-forward-only merge of b(i-1) and the *)
(* push of bi: 1 + 3n commands, no merge being of the branch into itself.  *)
(* Stated of every merger invocation of the run and of the content the     *)
(* job store holds for its job once it is applied.                         *)
(***************************************************************************)
Distinct(b) == \A m, n \in DOMAIN b : m # n => b[m] # b[n]

CheckoutOrCreate(c) ==
    "git branch -a | egrep \"remotes/origin/" \o c \o "\" &amp;&amp; git checkout "
        \o c \o " || git checkout -b " \o c

IsMergeScript(script, b) ==
    /\ Len(script) = 1 + 3 * (Len(b) - 1)
    /\ script[1] = "git checkout " \o b[1]
    /\ \A k \in 2..Len(b) :
           /\ script[3 * k - 4] = CheckoutOrCreate(b[k])
           /\ script[3 * k - 3] = "git merge --ff-only " \o b[k - 1]
           /\ script[3 * k - 3] # "git merge --ff-only " \o b[k]
           /\ script[3 * k - 2] = "git push --set-upstream origin " \o b[k]

MergerCalls == {k \in DOMAIN plan.calls : plan.calls[k].kind = "merger"}

C12_CascadeScript ==
    \A k \in MergerCalls :
        LET c == plan.calls[k]
            b == c.package["cascade"]
        IN  (Len(b) >= 1 /\ Distinct(b)) =>
                /\ IsMergeScript(c.config.MERGE_COMMANDS, b)
                /\ (k < i /\ Rederived(plan.calls) = {}) =>
                       server.jobs[c.name].MERGE_COMMANDS = c.config.MERGE_COMMANDS

\* merger job merge_foo applied with the script of a cascade of three
\* branches: seven commands, stable-2 merging stable-1
C12_Witness ==
    /\ pc = "done"
    /\ "merge_foo" \in DOMAIN server.jobs
    /\ Len(server.jobs["merge_foo"].MERGE_COMMANDS) = 7
    /\ server.jobs["merge_foo"].MERGE_COMMANDS[6] = "git merge --ff-only stable-1"


(***************************************************************************)
(* C13 as stated.  A merger job whose packaging URL lacks write capability *)
(* is applied with the placeholder definition, not with the cascade.  The  *)
(* policy is a predicate of the URL alone; here the URLs "git/..." are     *)
(* the ones without write capability.                                      *)
(***************************************************************************)
LacksWriteCapability(url) == Len(url) >= 4 /\ SubSeq(url, 1, 4) = "git/"

IsPlaceholder(config) == "MERGE_COMMANDS" \notin DOMAIN config

MergerApplies == {j \in Applies(log) : log[j].kind = "merger"}

C13_ReadOnlyGetsPlaceholder ==
    \A j \in MergerApplies :
        LacksWriteCapability(plan.calls[log[j].call].package["packaging_url"])
            => IsPlaceholder(log[j].config)

(***************************************************************************)
(* C13 as amended.  The content applied for a merger job is always the     *)
(* merger template rendered with the package's URL, name and the script    *)
(* generated from its cascade, whatever the URL: there is no placeholder.  *)
(***************************************************************************)
C13_AlwaysCascade ==
    \A j \in MergerApplies :
        LET c == plan.calls[log[j].call]
            b == c.package["cascade"]
        IN  /\ ~IsPlaceholder(log[j].config)
            /\ log[j].config.template = "merger"
            /\ log[j].config.PACKAGING_URL = c.package["packaging_url"]
            /\ log[j].config.NAME = c.package["name"]
            /\ Len(b) >= 1 =>
                   /\ Len(log[j].config.MERGE_COMMANDS) = 1 + 3 * (Len(b) - 1)
                   /\ log[j].config.MERGE_COMMANDS[1] = "git checkout " \o b[1]

\* merger job merge_foo of a URL without write capability, applied with a
\* cascade script
C13_Witness ==
    /\ pc = "done"
    /\ \E j \in MergerApplies :
           /\ log[j].name = "merge_foo"
           /\ LacksWriteCapability(log[j].config.PACKAGING_URL)
           /\ Len(log[j].config.MERGE_COMMANDS) >= 4


(***************************************************************************)
(* C14.  A run deletes no job and no view and removes no job from a view;  *)
(* a job the store held before the run and whose identity the run does not *)
(* derive keeps its content and its view memberships.  Stated of every     *)
(* state of a run, finished or not, against the store the run started on.  *)
(***************************************************************************)
DerivedNames == {plan.calls[k].name : k \in DOMAIN plan.calls}

MembershipsOf(s, name) == {v \in DOMAIN s.views : name \in s.views[v]}

TimedOut == lp.pc = "raised" /\ lp.error = "Timed out, contact Launchpad admins"

C15_GoodPollReturns ==
    /\ lp.good => lp.pc = "returned"
    /\ (TimedOut /\ lp.bpolls > 0) => (~lp.good /\ lp.bpolls = MaxIterations)

(***************************************************************************)
(* C16.  verify_source_published ends after at most 24 polls: it polls on  *)
(* only after "Pending", returns at the first "Published", raises the      *)
(* time-out error after 24 polls that all said "Pending" and only then,    *)
(* and never makes a 25th poll; and it does end.                           *)
(***************************************************************************)
AllPending(statuses) == \A k \in DOMAIN statuses : statuses[k] = "Pending"

SourceReturned == lp.pc = "binaries" \/ (lp.pc = "raised" /\ lp.bpolls > 0)

SourceBounded ==
    /\ Len(lp.statuses) <= MaxIterations
    /\ lp.statuses # <<>> => AllPending(SubSeq(lp.statuses, 1, Len(lp.statuses) - 1))
    /\ lp.pc = "source" => (Len(lp.statuses) < MaxIterations /\ AllPending(lp.statuses))
    /\ (lp.statuses # <<>> /\ lp.statuses[Len(lp.statuses)] = "Published")
           <=> SourceReturned
    /\ (Len(lp.statuses) = MaxIterations /\ AllPending(lp.statuses))
           <=> (TimedOut /\ lp.bpolls = 0)

C16_SourceTerminates == []SourceBounded /\ <>(lp.pc # "source")

\* the time-out after 24 polls
C16_Witness ==
    /\ TimedOut
    /\ Len(lp.statuses) = MaxIterations
    /\ AllPending(lp.statuses)

(***************************************************************************)
(* C17.  Builds and binaries are queried only after a source poll has said *)
(* "Published": a source poll with another status than "Pending" and       *)
(* "Published", or the time-out of the source polls, ends the check in an  *)
(* error with no build or binary query made.                               *)
(***************************************************************************)
C17_SourceBeforeBinaries ==
    /\ (lp.bpolls > 0 \/ lp.pc = "binaries") =>
           (lp.statuses # <<>> /\ lp.statuses[Len(lp.statuses)] = "Published")
    /\ (\E k \in DOMAIN lp.statuses : lp.statuses[k] \notin {"Pending", "Published"})
           => (lp.pc = "raised" /\ lp.bpolls = 0
               /\ lp.error = "Source package no longer exists")
    /\ (Len(lp.statuses) = MaxIterations /\ AllPending(lp.statuses))
           => (TimedOut /\ lp.bpolls = 0)
    /\ lp.bpolls = 0 => ~lp.good

\* builds queried after a source poll said "Pending" and the next "Published"
C17_Witness ==
    /\ lp.bpolls > 1
    /\ lp.statuses = <<"Pending", "Published">>


(***************************************************************************)
(* C18.  Every invocation of the function wrapped with run(label) starts   *)
(* the timer when it begins and stops it when it ends: the timer runs      *)
(* during an invocation, does not run after one, and total_time is the sum *)
(* of the durations of the invocations.  Stated while nothing else starts  *)
(* or stops the timer of the label.                                        *)
(***************************************************************************)
C18_TimedPerInvocation ==
    (timer.wrapped /\ ~timer.touched) =>
        /\ timer.in_call => timer.data[label].running
        /\ (timer.calls >= 1 /\ ~timer.in_call) => ~timer.data[label].running
        /\ ~timer.in_call => timer.data[label].total_time = timer.spent

(***************************************************************************)
(* C19.  stop(name): a running timer stops and its total_time grows by the *)
(* time since its start_time; a timer that is not running is left as it    *)
(* is; a name without a timer raises an error and the data is left as it   *)
(* is.  In every case no other timer changes.                              *)
(***************************************************************************)
C19_StopCases ==
    timer.last.op = "stop" =>
        LET b == timer.last.before
            n == timer.last.name
            d == timer.data
        IN  IF n \notin DOMAIN b
            THEN timer.last.error # "" /\ d = b
            ELSE IF b[n].running
            THEN /\ timer.last.error = ""
                 /\ DOMAIN d = DOMAIN b
                 /\ \A m \in DOMAIN b \ {n} : d[m] = b[m]
                 /\ d[n].running = FALSE
                 /\ d[n].start_time = b[n].start_time
                 /\ d[n].total_time
                        = b[n].total_time + (timer.last.t_val - b[n].start_time)
            ELSE timer.last.error = "" /\ d = b

\* the timer "Total", restarted after a first stop, is stopped again while
\* the timer of the label exists: its total_time has grown twice
C19_Witness ==
    /\ timer.last.op = "stop"
    /\ timer.last.name = "Total"
    /\ "Total" \in DOMAIN timer.last.before
    /\ timer.last.before["Total"].running
    /\ timer.last.before["Total"].total_time >= 1
    /\ timer.data["Total"].total_time > timer.last.before["Total"].total_time
    /\ label \in DOMAIN timer.data


(***************************************************************************)
(* C20.  The merger job of group G for a repository of G's parent group    *)
(* that sets no cascade in the document is generated from the default      *)
(* cascade of G itself, for every merger group, also when several merger   *)
(* groups name the same parent.                                            *)
(***************************************************************************)
C20_OwnDefaultCascade ==
    \A k \in MergerCalls :
        LET c == plan.calls[k]
            g == GroupIndex(metadata, c.config_name)
            p == GroupIndex(metadata, metadata[g].default["parent"])
        IN  \A r \in DOMAIN metadata[p].repositories :
                (/\ metadata[p].repositories[r]["name"] = c.package["name"]
                 /\ "cascade" \notin DOMAIN metadata[p].repositories[r])
                    => /\ c.package["cascade"] = metadata[g].default["cascade"]
                       /\ c.config.MERGE_COMMANDS
                              = Cascade(metadata[g].default["cascade"])


(***************************************************************************)
(* C21 as stated.  Every create-or-update decision of a run depends only   *)
(* on the identities the store held when the run began and on the ones the *)
(* run created itself: a job is updated exactly when its identity is one   *)
(* of those, whatever another client created in the meantime.              *)
(***************************************************************************)
CreatedBefore(j, ops) ==
    {log[n].name : n \in {m \in 1..(j - 1) : log[m].op \in ops}}

C21_DecidedOnSnapshot ==
    \A j \in Applies(log) :
        log[j].op = "update_config"
            <=> log[j].name \in keys(start) \cup CreatedBefore(j, {"create_job"})

(***************************************************************************)
(* C21 as amended.  Every decision is made on the identities the store     *)
(* holds at the time of the invocation: a job is updated exactly when its  *)
(* identity was in the store when the run began or has been created since, *)
(* by the run or by anybody else.                                          *)
(***************************************************************************)
C21_DecidedOnLiveStore ==
    \A j \in Applies(log) :
        log[j].op = "update_config"
            <=> log[j].name \in keys(start)
                    \cup CreatedBefore(j, {"create_job", "external"})

\* a complete run that updated a job another client had created during the
\* run, on a store that was empty when the run began
C21_Witness ==
    /\ pc = "done"
    /\ start = EmptyServer
    /\ \E j \in Applies(log) :
           /\ log[j].op = "update_config"
           /\ log[j].name \in CreatedBefore(j, {"external"})
           /\ log[j].name \notin CreatedBefore(j, {"create_job"})
           /\ CreatedBefore(j, {"create_job"}) # {}


(***************************************************************************)
(* C22.  Default inheritance fills required keys only: a package that does *)
(* not set an optional key (upstream_url, upstream_branch) does not have   *)
(* it after parse_metadata either, even if the group's default sets it.    *)
(***************************************************************************)
C22_OptionalKeysNotDefaulted ==
    pc \in {"running", "done", "crashed", "aborted"} =>
        \A c \in PackageGroupsOf(metadata) :
            \A p \in DOMAIN metadata[c].repositories :
                LET raw == metadata[c].repositories[p]
                    out == parse_metadata(metadata).active_configs[c].repositories[p]
                IN  \A key \in Range(mdata_opt_keys) :
                        key \notin DOMAIN raw => key \notin DOMAIN out


(***************************************************************************)
(* C23 as stated.  Two different derivations of a run (differing in kind,  *)
(* config group, package, release or job type) never yield the same        *)
(* identity, so no derived job's content is overwritten by another one.    *)
(***************************************************************************)
Derivation(c) ==
    <<c.kind, c.config_name, IF c.kind = "mgmt" THEN "" ELSE c.package["name"],
      c.release, c.job_type>>

Collisions ==
    {pair \in (DOMAIN plan.calls) \X (DOMAIN plan.calls) :
        /\ pair[1] < pair[2]
        /\ Derivation(plan.calls[pair[1]]) # Derivation(plan.calls[pair[2]])
        /\ plan.calls[pair[1]].name = plan.calls[pair[2]].name}

ContentKept ==
    (pc = "done" /\ ~failed) =>
        \A k \in DOMAIN plan.calls :
            server.jobs[plan.calls[k].name] = plan.calls[k].config

C23_CollisionFree == Collisions = {} /\ ContentKept

(***************************************************************************)
(* C23 as amended.  The parts of an identity are joined with "_": the      *)
(* derivation is collision-free, and no derived job overwritten, when no   *)
(* config group name, package name or release contains "_".                *)
(***************************************************************************)
PartsOf(c) ==
    {c.config_name, c.release} \cup (IF c.kind = "mgmt" THEN {} ELSE {c.package["name"]})

NoUnderscore ==
    \A k \in DOMAIN plan.calls :
        \A part \in PartsOf(plan.calls[k]) : ~Contains(part, "_")

C23_CollisionFreeWithoutUnderscore ==
    NoUnderscore => (Collisions = {} /\ ContentKept)

\* a complete run with merger, package and management jobs, two releases
C23_Witness ==
    /\ pc = "done" /\ ~failed
    /\ NoUnderscore
    /\ MergerCalls # {}
    /\ "bionic_stable_foo" \in DOMAIN server.jobs
    /\ "focal_stable_foo" \in DOMAIN server.jobs
    /\ "mgmt_build_bionic_unstable" \in DOMAIN server.jobs

====
